---- MODULE Spec2Model ----
(***************************************************************************)
(* dashGPT-backend: the request path of the chat backend.                  *)
(*                                                                         *)
(*   main (router wiring)        -> Class, Protected, requestsPerWindow    *)
(*   middleware.AuthMiddleware   -> AuthMiddleware                         *)
(*   middleware.RateLimiter      -> RLEnter, RLExit, Sweep                 *)
(*   handlers.ChatHandler        -> SendMessage..., GetHistory, ...        *)
(*                                                                         *)
(* Every request is served by its own goroutine (a process of Procs).      *)
(* Time is a discrete clock; one window (time.Minute) is Window ticks.     *)
(*                                                                         *)
(* Five specifications share the actions and differ in the traffic:        *)
(*   Spec        two concurrent requests, one client key                   *)
(*   SpecClients one request at a time, two client keys                    *)
(*   SpecRelay   one request at a time on the chat routes, with the        *)
(*               upstream API and the database answering in every way      *)
(*   SpecHangup  one chat message at a time, from a client that may close  *)
(*               the connection while the answer is streamed               *)
(*   SpecLive    the traffic of SpecHangup, where a relay call that has    *)
(*               emitted start is not left standing: its goroutine runs,   *)
(*               the upstream answers and every read and storage call      *)
(*               returns                                                   *)
(***************************************************************************)
EXTENDS Integers, Sequences, FiniteSets, TLC

\* ------------------------------------------------------------------ bounds
\* Last instant of the clock.
MaxTime == 2
\* Ticks of the clock in one window (time.Minute).
Window == 1
\* The limits main configures are 5 (auth), 60 (dashboard) and 20 (chat)
\* requests per window.  The model keeps three limiters with distinct limits in
\* the same order, scaled down so that every limit is reached within MaxTime.
LimitAuth == 1
LimitChat == 2
LimitDashboard == 3
\* Frames in one upstream body.
MaxFrames == 2
\* Rows of the messages table beyond which no chat message is sent.
MaxMsgs == 3
\* Rows of the conversations table.
MaxConvs == 2

\* ------------------------------------------------------------ the universe
\* Goroutines serving requests.
Procs == {"p1", "p2"}
\* r.RemoteAddr values.
Keys == {"k1", "k2"}
\* Subjects of valid tokens.
Users == {"A", "B"}
\* The route classes of main, each wrapped by its own RateLimiter(...) call.
Routes == {"auth", "dashboard", "chat"}
\* The endpoints of main and the route class each is mounted in.
Class ==
  [register |-> "auth", login |-> "auth",
   metrics |-> "dashboard", charts |-> "dashboard",
   send |-> "chat", history |-> "chat", conversations |-> "chat"]
Paths == DOMAIN Class
\* Route classes mounted below r.Use(middleware.AuthMiddleware(jwtSecret)).
Protected == {"dashboard", "chat"}

requestsPerWindow ==
  [auth |-> LimitAuth, dashboard |-> LimitDashboard, chat |-> LimitChat]

\* Every RateLimiter call of main passes time.Minute.
window == [l \in Routes |-> Window]

NoProc == "none"
NoVisitor == [lastSeen |-> -1, count |-> 0]
NoTime == -1

VARIABLES
  now,        \* the wall clock (time.Now())
  mu,         \* holder of the package-level mutex mu, or NoProc
  visitors,   \* the package-level map visitors: key -> visitor record
  hist,       \* history of the observed limiter and key (see Record)
  pc,         \* where each request goroutine stands
  path,       \* the endpoint of the request being served
  ip,         \* r.RemoteAddr of the request being served
  userID,     \* the user id AuthMiddleware put in the request context
  resp,       \* HTTP status written to the client (0: none yet)
  conversations,  \* table conversations, in order of creation: id = index
  messages,       \* table messages, in order of created_at
  reqMessage,     \* SendMessage: req.Message
  conversationID, \* SendMessage: conversationID (NoConv: the empty string)
  claudeReq,      \* SendMessage: claudeReq.Messages
  called,         \* streamClaudeResponse: client.Do(req) was issued
  events,         \* the stream events written to the client so far
  down,           \* the connection to the client: "open", "gone" (the client
                  \* has left), "failed" (a write to it returned an error)
  body,           \* streamClaudeResponse: the bytes of resp.Body not yet read
  got,            \* the bytes read from resp.Body while it is open
  fullResponse,   \* streamClaudeResponse: fullResponse
  out             \* the rows a GET handler encoded in its response

limVars == <<now, mu, visitors, hist>>
reqVars == <<pc, path, ip, userID, resp>>
dbVars == <<conversations, messages>>
callVars ==
  <<reqMessage, conversationID, claudeReq, called, events, down, body, got,
    fullResponse, out>>
vars ==
  <<now, mu, visitors, hist, pc, path, ip, userID, resp, conversations,
    messages, reqMessage, conversationID, claudeReq, called, events, down,
    body, got, fullResponse, out>>

\* The empty conversation id, and an id no conversation has.
NoConv == 0
UnknownConv == -1

\* The history is kept for one limiter, chosen at the start, and one key of
\* keys: lim and key name them, and the other fields are explained at Record.
NoHist(l, k) ==
  [lim |-> l, key |-> k, last |-> NoTime, first |-> NoTime, n |-> 0, adm |-> 0,
   other |-> NoTime, at |-> [t \in 0..MaxTime |-> 0]]

\* The server has started: no visitor is known, no request is being served.
InitOf(keys) ==
  /\ now = 0
  /\ mu = NoProc
  /\ visitors = [k \in Keys |-> NoVisitor]
  /\ \E l \in Routes, k \in keys : hist = NoHist(l, k)
  /\ pc = [p \in Procs |-> "idle"]
  /\ path = [p \in Procs |-> "login"]
  /\ ip = [p \in Procs |-> "k1"]
  /\ userID = [p \in Procs |-> ""]
  /\ resp = [p \in Procs |-> 0]
  /\ conversations = <<>>
  /\ messages = <<>>
  /\ reqMessage = [p \in Procs |-> ""]
  /\ conversationID = [p \in Procs |-> NoConv]
  /\ claudeReq = [p \in Procs |-> <<>>]
  /\ called = [p \in Procs |-> FALSE]
  /\ events = [p \in Procs |-> <<>>]
  /\ down = [p \in Procs |-> "open"]
  /\ body = [p \in Procs |-> <<>>]
  /\ got = [p \in Procs |-> <<>>]
  /\ fullResponse = [p \in Procs |-> <<>>]
  /\ out = [p \in Procs |-> <<>>]

\* ------------------------------------------------------------- the clock
\* The critical sections of mu are short against the clock's granularity:
\* the clock does not tick while mu is held.
Tick ==
  /\ now < MaxTime
  /\ mu = NoProc
  /\ now' = now + 1
  /\ UNCHANGED <<mu, visitors, hist, reqVars, dbVars, callVars>>

\* ------------------------------------------------------ a request arrives
\* The router hands a request for an endpoint in paths, from a remote address
\* in keys, to a fresh goroutine.  /api/auth is public; /api/dashboard and
\* /api/chat sit below AuthMiddleware.
Arrive(p, paths, keys) ==
  /\ pc[p] \in {"idle", "done"}
  /\ \E e \in paths, k \in keys :
       /\ path' = [path EXCEPT ![p] = e]
       /\ ip' = [ip EXCEPT ![p] = k]
       /\ pc' = [pc EXCEPT ![p] = IF Class[e] \in Protected THEN "auth" ELSE "rl"]
  /\ resp' = [resp EXCEPT ![p] = 0]
  /\ userID' = [userID EXCEPT ![p] = ""]
  /\ reqMessage' = [reqMessage EXCEPT ![p] = ""]
  /\ conversationID' = [conversationID EXCEPT ![p] = NoConv]
  /\ claudeReq' = [claudeReq EXCEPT ![p] = <<>>]
  /\ called' = [called EXCEPT ![p] = FALSE]
  /\ events' = [events EXCEPT ![p] = <<>>]
  /\ down' = [down EXCEPT ![p] = "open"]
  /\ body' = [body EXCEPT ![p] = <<>>]
  /\ got' = [got EXCEPT ![p] = <<>>]
  /\ fullResponse' = [fullResponse EXCEPT ![p] = <<>>]
  /\ out' = [out EXCEPT ![p] = <<>>]
  /\ UNCHANGED <<limVars, dbVars>>

\* The goroutine has written its response and ends: what it wrote stays.
Finish(p, status) ==
  /\ pc' = [pc EXCEPT ![p] = "done"]
  /\ resp' = [resp EXCEPT ![p] = status]
  /\ path' = [path EXCEPT ![p] = "login"]
  /\ ip' = [ip EXCEPT ![p] = "k1"]
  /\ userID' = userID

\* ------------------------------------------------------- AuthMiddleware
\* What the Authorization header can hold: nothing, no "Bearer " prefix, a
\* token jwt.Parse rejects, a valid token without a string user_id claim, or
\* a valid token of a user in users.
BadCreds == {"missing", "nobearer", "badtoken", "nouserid"}

\* A guard that writes 401 and calls the next handler all the same.
AuthMiddleware_NoReturn(p, users) ==
  /\ pc[p] = "auth"
  /\ \E c \in BadCreds \cup users :
       IF c \in BadCreds
         THEN /\ pc' = [pc EXCEPT ![p] = "rl"]
              /\ UNCHANGED <<path, ip, userID, resp>>
         ELSE /\ userID' = [userID EXCEPT ![p] = c]
              /\ pc' = [pc EXCEPT ![p] = "rl"]
              /\ UNCHANGED <<path, ip, resp>>
  /\ UNCHANGED <<limVars, dbVars, callVars>>

AuthMiddleware(p, users) ==
  /\ pc[p] = "auth"
  /\ \E c \in BadCreds \cup users :
       IF c \in BadCreds
         THEN Finish(p, 401)
         ELSE /\ userID' = [userID EXCEPT ![p] = c]
              /\ pc' = [pc EXCEPT ![p] = "rl"]
              /\ UNCHANGED <<path, ip, resp>>
  /\ UNCHANGED <<limVars, dbVars, callVars>>

\* ----------------------------------------------------------- RateLimiter
\* mu.Lock() returns only when no goroutine holds mu.
\* A limiter that takes no lock.
MuFree_NoLock == TRUE

MuFree == mu = NoProc

\* The branch the handler takes on the record v found under the key at time
\* t, by a limiter with the given limit and window (lines 97-121).
\* A limiter that compares the count before it looks at the age.
Branch_CountFirst(v, t, limit, w) ==
  IF v = NoVisitor THEN "new"
  ELSE IF v.count >= limit THEN "deny"
  ELSE IF t - v.lastSeen > w THEN "reset"
  ELSE "incr"

Branch(v, t, limit, w) ==
  IF v = NoVisitor THEN "new"
  ELSE IF t - v.lastSeen > w THEN "reset"
  ELSE IF v.count >= limit THEN "deny"
  ELSE "incr"

\* What the branch writes to the record (lines 99, 106-107, 121-122); the deny
\* branch writes nothing.
\* A limiter that counts the requests it denies.
Written_CountsDenied(b, v, t) ==
  IF b \in {"new", "reset"} THEN [lastSeen |-> t, count |-> 1]
  ELSE [lastSeen |-> IF b = "deny" THEN v.lastSeen ELSE t, count |-> v.count + 1]

Written(b, v, t) ==
  CASE b = "new" -> [lastSeen |-> t, count |-> 1]
    [] b = "reset" -> [lastSeen |-> t, count |-> 1]
    [] b = "incr" -> [lastSeen |-> t, count |-> v.count + 1]
    [] OTHER -> v

\* The history after one more request to limiter l from key k at time t.
\* A window of the observed limiter and key starts with a request that comes
\* more than one window after their previous one (or is their first); it holds
\* their requests within one window of its start.  first is its start, n
\* counts its requests (0: the last request belongs to no such window), adm
\* counts the admitted ones, last is the time of the last request.  other is
\* the time of the last request from the observed key to another limiter.
\* at[u] counts, up to the limit, the requests of the observed key that the
\* observed limiter admitted at time u; it is kept for as long as the key has
\* sent requests to the observed limiter only.
Cap == requestsPerWindow[hist.lim] + 2
Min(a, b) == IF a < b THEN a ELSE b

Record(h, l, k, t, admitted) ==
  LET one == IF admitted THEN 1 ELSE 0
      g == IF h.other = NoTime
             THEN [h EXCEPT !.at[t] = Min(@ + one, requestsPerWindow[l])]
             ELSE h
  IN
  IF k # h.key THEN h
  ELSE IF l # h.lim
    THEN [h EXCEPT !.other = t, !.at = [u \in 0..MaxTime |-> 0]]
  ELSE IF h.last = NoTime \/ t - h.last > window[l]
    THEN [g EXCEPT !.last = t, !.first = t, !.n = 1, !.adm = one]
  ELSE IF h.first # NoTime /\ t - h.first <= window[l]
    THEN [g EXCEPT !.last = t, !.n = Min(h.n + 1, Cap),
                   !.adm = Min(h.adm + one, Cap)]
  ELSE [g EXCEPT !.last = t, !.first = NoTime, !.n = 0, !.adm = 0]

\* mu.Lock(); v, exists := visitors[ip]; the three tests.
RLEnter(p) ==
  /\ pc[p] = "rl"
  /\ MuFree
  /\ mu' = p
  /\ pc' = [pc EXCEPT ![p] =
       Branch(visitors[ip[p]], now, requestsPerWindow[Class[path[p]]],
              window[Class[path[p]]])]
  /\ UNCHANGED <<now, visitors, hist, path, ip, userID, resp, dbVars, callVars>>

\* The writes of the branch taken, mu.Unlock(), and then either
\* next.ServeHTTP(w, r) or the 429 response.
RLExit(p) ==
  /\ pc[p] \in {"new", "reset", "deny", "incr"}
  /\ visitors' = [visitors EXCEPT ![ip[p]] = Written(pc[p], @, now)]
  /\ mu' = NoProc
  /\ IF pc[p] = "deny"
       THEN Finish(p, 429)
       ELSE /\ pc' = [pc EXCEPT ![p] = "handler"]
            /\ UNCHANGED <<path, ip, userID, resp>>
  /\ hist' = Record(hist, Class[path[p]], ip[p], now, pc[p] # "deny")
  /\ UNCHANGED <<now, dbVars, callVars>>

\* One pass of the cleanup goroutine started by the RateLimiter call of route
\* class l: under mu, delete every record last seen more than window ago.
\* A sweep with the comparison turned round.
Stale_Younger(v, t, w) == v # NoVisitor /\ t - v.lastSeen < w

\* A sweep that also deletes the records last seen exactly one window ago.
Stale_AtWindow(v, t, w) == v # NoVisitor /\ t - v.lastSeen >= w

Stale(v, t, w) == v # NoVisitor /\ t - v.lastSeen > w

Sweep(l) ==
  /\ MuFree
  /\ visitors' = [k \in Keys |->
       IF Stale(visitors[k], now, window[l]) THEN NoVisitor ELSE visitors[k]]
  /\ UNCHANGED <<now, mu, hist, reqVars, dbVars, callVars>>

\* ------------------------------------------------- handlers outside chat
\* Register and Login work on the users table only; 200 stands for whatever
\* status they answer with.
AuthHandler(p) ==
  /\ pc[p] = "handler"
  /\ Class[path[p]] = "auth"
  /\ Finish(p, 200)
  /\ UNCHANGED <<limVars, dbVars, callVars>>

\* GetMetrics and GetChartData answer with generated numbers.
DashboardHandler(p) ==
  /\ pc[p] = "handler"
  /\ Class[path[p]] = "dashboard"
  /\ Finish(p, IF userID[p] = "" THEN 401 ELSE 200)
  /\ UNCHANGED <<limVars, dbVars, callVars>>

\* ---------------------------------------------------------- the database
\* CURRENT_TIMESTAMP, as a logical clock: the number of rows written so far.
\* Every successful INSERT moves it.
DbNow == Len(conversations) + Len(messages)

\* SELECT ... FROM messages WHERE conversation_id = c ORDER BY created_at ASC
RECURSIVE MessagesOf(_, _)
MessagesOf(rows, c) ==
  IF rows = <<>> THEN <<>>
  ELSE IF Head(rows).conversation_id = c
    THEN <<Head(rows)>> \o MessagesOf(Tail(rows), c)
  ELSE MessagesOf(Tail(rows), c)

\* getConversationMessages: the rows of the conversation, oldest first.
getConversationMessages(c) == MessagesOf(messages, c)

\* The conversation ids that exist (the foreign key of messages).
ConvIds == 1..Len(conversations)

\* ------------------------------------------------------------ SendMessage
\* formatStreamEvent: one event of the downstream stream.
formatStreamEvent(eventType, text, conv) ==
  [type |-> eventType, text |-> text, conversationId |-> conv]

\* fmt.Fprintf(w, ...) and Flush: the event is written, and the write returns
\* an error once the client has left.
Wrote(d) == IF d = "open" THEN "open" ELSE "failed"

Emit(p, ev) ==
  /\ events' = [events EXCEPT ![p] = Append(@, ev)]
  /\ down' = [down EXCEPT ![p] = Wrote(@)]

\* The client closes the connection while the stream is open.
ClientCloses(p) ==
  /\ pc[p] \notin {"idle", "done"}
  /\ events[p] # <<>>
  /\ down[p] = "open"
  /\ down' = [down EXCEPT ![p] = "gone"]
  /\ UNCHANGED <<limVars, reqVars, dbVars, reqMessage, conversationID,
                 claudeReq, called, events, body, got, fullResponse, out>>

\* A handler without the test of req.Message.
SendMessage_NoCheck(p, msgs, convs) ==
  /\ pc[p] = "handler"
  /\ path[p] = "send"
  /\ \E m \in msgs \cup {"badjson"}, c \in convs :
       IF userID[p] = "" THEN
         /\ Finish(p, 401)
         /\ UNCHANGED <<reqMessage, conversationID>>
       ELSE IF m = "badjson" THEN
         /\ Finish(p, 400)
         /\ UNCHANGED <<reqMessage, conversationID>>
       ELSE
         /\ reqMessage' = [reqMessage EXCEPT ![p] = m]
         /\ conversationID' = [conversationID EXCEPT ![p] = c]
         /\ pc' = [pc EXCEPT ![p] = IF c = NoConv THEN "create" ELSE "saveUser"]
         /\ UNCHANGED <<path, ip, userID, resp>>
  /\ UNCHANGED <<limVars, dbVars, claudeReq, called, events, down, body, got,
                 fullResponse, out>>

\* Lines 70-85: the user id, the body, the message.  The body is malformed
\* JSON, or names a message of msgs and a conversation id of convs.
SendMessage(p, msgs, convs) ==
  /\ pc[p] = "handler"
  /\ path[p] = "send"
  /\ \E m \in msgs \cup {"badjson"}, c \in convs :
       IF userID[p] = "" THEN
         /\ Finish(p, 401)
         /\ UNCHANGED <<reqMessage, conversationID>>
       ELSE IF m = "badjson" \/ m = "" THEN
         /\ Finish(p, 400)
         /\ UNCHANGED <<reqMessage, conversationID>>
       ELSE
         /\ reqMessage' = [reqMessage EXCEPT ![p] = m]
         /\ conversationID' = [conversationID EXCEPT ![p] = c]
         /\ pc' = [pc EXCEPT ![p] = IF c = NoConv THEN "create" ELSE "saveUser"]
         /\ UNCHANGED <<path, ip, userID, resp>>
  /\ UNCHANGED <<limVars, dbVars, claudeReq, called, events, down, body, got,
                 fullResponse, out>>

\* Lines 89-96 and createConversation: INSERT INTO conversations, which the
\* database may refuse.
CreateConversation(p) ==
  /\ pc[p] = "create"
  /\ \E ok \in BOOLEAN :
       IF ok THEN
         /\ conversations' = Append(conversations,
              [user_id |-> userID[p], updated_at |-> DbNow + 1])
         /\ conversationID' = [conversationID EXCEPT ![p] = Len(conversations) + 1]
         /\ pc' = [pc EXCEPT ![p] = "saveUser"]
         /\ UNCHANGED <<path, ip, userID, resp>>
       ELSE
         /\ Finish(p, 500)
         /\ UNCHANGED <<conversations, conversationID>>
  /\ UNCHANGED <<limVars, messages, reqMessage, claudeReq, called, events, down,
                 body, got, fullResponse, out>>

\* Lines 99-106: INSERT INTO messages (role user).  The insert fails when the
\* conversation id names no conversation, or when the database refuses it.
SaveUserMessage(p) ==
  /\ pc[p] = "saveUser"
  /\ \E ok \in BOOLEAN :
       IF ok /\ conversationID[p] \in ConvIds THEN
         /\ messages' = Append(messages,
              [conversation_id |-> conversationID[p], role |-> "user",
               content |-> <<reqMessage[p]>>])
         /\ pc' = [pc EXCEPT ![p] = "history"]
         /\ UNCHANGED <<path, ip, userID, resp>>
       ELSE
         /\ Finish(p, 500)
         /\ UNCHANGED messages
  /\ UNCHANGED <<limVars, conversations, callVars>>

\* A handler whose start event carries no conversation id.
LoadHistory_EmptyStart(p) ==
  /\ pc[p] = "history"
  /\ \E ok \in BOOLEAN :
       IF ok THEN
         /\ claudeReq' = [claudeReq EXCEPT ![p] =
              [i \in 1..Len(getConversationMessages(conversationID[p])) |->
                 [role |-> getConversationMessages(conversationID[p])[i].role,
                  content |-> getConversationMessages(conversationID[p])[i].content]]]
         /\ Emit(p, formatStreamEvent("start", "", NoConv))
         /\ pc' = [pc EXCEPT ![p] = "upstream"]
         /\ UNCHANGED <<path, ip, userID, resp>>
       ELSE
         /\ Finish(p, 500)
         /\ UNCHANGED <<claudeReq, events, down>>
  /\ UNCHANGED <<limVars, dbVars, reqMessage, conversationID, called, body, got,
                 fullResponse, out>>

\* Lines 109-142: the history query, which may fail; claudeReq; the SSE
\* headers and the start event.
LoadHistory(p) ==
  /\ pc[p] = "history"
  /\ \E ok \in BOOLEAN :
       IF ok THEN
         /\ claudeReq' = [claudeReq EXCEPT ![p] =
              [i \in 1..Len(getConversationMessages(conversationID[p])) |->
                 [role |-> getConversationMessages(conversationID[p])[i].role,
                  content |-> getConversationMessages(conversationID[p])[i].content]]]
         /\ Emit(p, formatStreamEvent("start", "", conversationID[p]))
         /\ pc' = [pc EXCEPT ![p] = "upstream"]
         /\ UNCHANGED <<path, ip, userID, resp>>
       ELSE
         /\ Finish(p, 500)
         /\ UNCHANGED <<claudeReq, events, down>>
  /\ UNCHANGED <<limVars, dbVars, reqMessage, conversationID, called, body, got,
                 fullResponse, out>>

\* --------------------------------------------------- the upstream stream
\* The units of the upstream byte stream: "D" is the tag "data: ", "NL" a
\* line feed, "{" t "}" the JSON of a content_block_delta with text t,
\* "[DONE]" the sentinel, "ping" the JSON of an event of another type, "junk"
\* bytes that are no JSON, "E" a line without the tag (event: ...).
Texts == {"a", "b"}
Frames ==
  {<<"D", "{", t, "}", "NL">> : t \in Texts} \cup
  {<<"D", "[DONE]", "NL">>, <<"D", "ping", "NL">>, <<"D", "junk", "NL">>,
   <<"E", "NL">>}

RECURSIVE Concat(_)
Concat(ss) == IF ss = <<>> THEN <<>> ELSE Head(ss) \o Concat(Tail(ss))

\* The bodies of at most n frames.
Bodies(n) == {Concat(fs) : fs \in UNION {[1..k -> Frames] : k \in 0..n}}

\* strings.Split(chunk, "\n")
RECURSIVE Split(_)
Split(chunk) ==
  IF chunk = <<>> THEN << <<>> >>
  ELSE LET rest == Split(Tail(chunk)) IN
       IF Head(chunk) = "NL" THEN << <<>> >> \o rest
       ELSE << <<Head(chunk)>> \o Head(rest) >> \o Tail(rest)

\* strings.HasPrefix(strings.TrimSpace(line), "data: "): the tag and
\* something after it (the tag alone loses its blank to TrimSpace).
HasPrefix(line) == Len(line) >= 2 /\ Head(line) = "D"

\* json.Unmarshal([]byte(data), &streamResp) succeeds.
ValidJSON(data) ==
  \/ data = <<"ping">>
  \/ Len(data) = 3 /\ data[1] = "{" /\ data[2] \in Texts /\ data[3] = "}"

\* streamResp["type"] == "content_block_delta" with a string delta.text.
IsDelta(data) == Len(data) = 3 /\ data[1] = "{" /\ data[2] \in Texts /\ data[3] = "}"

\* A line loop that a payload that is no JSON ends.
RECURSIVE Forward_StopOnBadJSON(_)
Forward_StopOnBadJSON(lines) ==
  IF lines = <<>> THEN <<>>
  ELSE LET line == Head(lines)
           data == Tail(line)
       IN IF ~HasPrefix(line) THEN Forward_StopOnBadJSON(Tail(lines))
          ELSE IF data = <<"[DONE]">> THEN <<>>
          ELSE IF ~ValidJSON(data) THEN <<>>
          ELSE IF IsDelta(data) THEN <<data[2]>> \o Forward_StopOnBadJSON(Tail(lines))
          ELSE Forward_StopOnBadJSON(Tail(lines))

\* Lines 214-242: the texts the loop over the lines of one chunk forwards.
RECURSIVE Forward(_)
Forward(lines) ==
  IF lines = <<>> THEN <<>>
  ELSE LET line == Head(lines)
           data == Tail(line)
       IN IF ~HasPrefix(line) THEN Forward(Tail(lines))
          ELSE IF data = <<"[DONE]">> THEN <<>>
          ELSE IF ~ValidJSON(data) THEN Forward(Tail(lines))
          ELSE IF IsDelta(data) THEN <<data[2]>> \o Forward(Tail(lines))
          ELSE Forward(Tail(lines))

\* The errors streamClaudeResponse returns: client.Do failed, the status was
\* not 200, reader.Read failed.  A goroutine that holds one stands at it.
UpstreamErrors == {"connect", "status", "read"}

\* Lines 178-202: the request goes out.  client.Do fails, or the status is not
\* 200, or the status is 200 and the body is one of bodies.
CallUpstream(p, bodies) ==
  /\ pc[p] = "upstream"
  /\ called' = [called EXCEPT ![p] = TRUE]
  /\ got' = got
  /\ \/ /\ \E e \in {"connect", "status"} : pc' = [pc EXCEPT ![p] = e]
        /\ body' = body
     \/ \E b \in bodies :
          /\ body' = [body EXCEPT ![p] = b]
          /\ pc' = [pc EXCEPT ![p] = "recv"]
  /\ UNCHANGED <<limVars, dbVars, path, ip, userID, resp, reqMessage,
                 conversationID, claudeReq, events, down, fullResponse, out>>

\* A reader that keeps the texts of its latest chunk only.
ReadChunk_Overwrite(p) ==
  /\ pc[p] = "recv"
  /\ \E n \in 0..Len(body[p]), e \in {"nil", "EOF", "err"} :
       /\ n = 0 => e # "nil"
       /\ e = "EOF" => n = Len(body[p])
       /\ LET texts == IF n > 0 THEN Forward(Split(SubSeq(body[p], 1, n)))
                       ELSE <<>>
          IN /\ fullResponse' = [fullResponse EXCEPT ![p] =
                  IF texts = <<>> THEN @ ELSE texts]
             /\ events' = [events EXCEPT ![p] = @ \o
                  [i \in 1..Len(texts) |->
                     formatStreamEvent("content", texts[i], NoConv)]]
             /\ down' = [down EXCEPT ![p] =
                  IF texts = <<>> THEN @ ELSE Wrote(@)]
       /\ body' = [body EXCEPT ![p] = SubSeq(@, n + 1, Len(@))]
       /\ got' = [got EXCEPT ![p] =
            IF e = "nil" THEN @ \o SubSeq(body[p], 1, n) ELSE <<>>]
       /\ pc' = [pc EXCEPT ![p] =
            CASE e = "nil" -> "recv" [] e = "EOF" -> "save" [] OTHER -> "read"]
  /\ UNCHANGED <<limVars, dbVars, path, ip, userID, resp, reqMessage,
                 conversationID, claudeReq, called, out>>

\* Lines 208-251: one reader.Read(buffer).  It returns the next n bytes and
\* with them nothing, io.EOF (only after the last byte) or another error.
ReadChunk(p) ==
  /\ pc[p] = "recv"
  /\ \E n \in 0..Len(body[p]), e \in {"nil", "EOF", "err"} :
       /\ n = 0 => e # "nil"
       /\ e = "EOF" => n = Len(body[p])
       /\ LET texts == IF n > 0 THEN Forward(Split(SubSeq(body[p], 1, n)))
                       ELSE <<>>
          IN /\ fullResponse' = [fullResponse EXCEPT ![p] = @ \o texts]
             /\ events' = [events EXCEPT ![p] = @ \o
                  [i \in 1..Len(texts) |->
                     formatStreamEvent("content", texts[i], NoConv)]]
             /\ down' = [down EXCEPT ![p] =
                  IF texts = <<>> THEN @ ELSE Wrote(@)]
       /\ body' = [body EXCEPT ![p] = SubSeq(@, n + 1, Len(@))]
       /\ got' = [got EXCEPT ![p] =
            IF e = "nil" THEN @ \o SubSeq(body[p], 1, n) ELSE <<>>]
       /\ pc' = [pc EXCEPT ![p] =
            CASE e = "nil" -> "recv" [] e = "EOF" -> "save" [] OTHER -> "read"]
  /\ UNCHANGED <<limVars, dbVars, path, ip, userID, resp, reqMessage,
                 conversationID, claudeReq, called, out>>

\* A handler that goes on after the error event of an upstream error.
StreamError_NoReturn(p) ==
  /\ pc[p] \in UpstreamErrors
  /\ Emit(p, formatStreamEvent("error", pc[p], conversationID[p]))
  /\ pc' = [pc EXCEPT ![p] = "save"]
  /\ UNCHANGED <<path, ip, userID, resp>>
  /\ UNCHANGED <<limVars, dbVars, reqMessage, conversationID, claudeReq,
                 called, body, got, fullResponse, out>>

\* A handler that calls the upstream again after every upstream error.
StreamError_Retry(p) ==
  /\ pc[p] \in UpstreamErrors
  /\ pc' = [pc EXCEPT ![p] = "upstream"]
  /\ UNCHANGED <<path, ip, userID, resp>>
  /\ UNCHANGED <<limVars, dbVars, reqMessage, conversationID, claudeReq,
                 called, events, down, body, got, fullResponse, out>>

\* Lines 146-152: streamClaudeResponse returned an error, and err.Error() is
\* the text of the error event.
StreamError(p) ==
  /\ pc[p] \in UpstreamErrors
  /\ Emit(p, formatStreamEvent("error", pc[p], conversationID[p]))
  /\ Finish(p, 200)
  /\ UNCHANGED <<limVars, dbVars, reqMessage, conversationID, claudeReq,
                 called, body, got, fullResponse, out>>

\* A handler that goes on after the error event of a refused INSERT.
SaveAssistantMessage_NoReturn(p) ==
  /\ pc[p] = "save"
  /\ \E ok \in BOOLEAN :
       IF ok /\ conversationID[p] \in ConvIds THEN
         /\ messages' = Append(messages,
              [conversation_id |-> conversationID[p], role |-> "assistant",
               content |-> fullResponse[p]])
         /\ pc' = [pc EXCEPT ![p] = "end"]
         /\ UNCHANGED <<path, ip, userID, resp, events, down>>
       ELSE
         /\ Emit(p, formatStreamEvent("error", "save", conversationID[p]))
         /\ pc' = [pc EXCEPT ![p] = "end"]
         /\ UNCHANGED <<path, ip, userID, resp, messages>>
  /\ UNCHANGED <<limVars, conversations, reqMessage, conversationID,
                 claudeReq, called, body, got, fullResponse, out>>

\* Lines 155-165: INSERT INTO messages (role assistant), which may fail.
SaveAssistantMessage(p) ==
  /\ pc[p] = "save"
  /\ \E ok \in BOOLEAN :
       IF ok /\ conversationID[p] \in ConvIds THEN
         /\ messages' = Append(messages,
              [conversation_id |-> conversationID[p], role |-> "assistant",
               content |-> fullResponse[p]])
         /\ pc' = [pc EXCEPT ![p] = "end"]
         /\ UNCHANGED <<path, ip, userID, resp, events, down>>
       ELSE
         /\ Emit(p, formatStreamEvent("error", "save", conversationID[p]))
         /\ Finish(p, 200)
         /\ UNCHANGED messages
  /\ UNCHANGED <<limVars, conversations, reqMessage, conversationID,
                 claudeReq, called, body, got, fullResponse, out>>

\* Lines 168-174: UPDATE conversations SET updated_at, whose error is
\* dropped, and the end event.
EndStream(p) ==
  /\ pc[p] = "end"
  /\ \E ok \in BOOLEAN :
       conversations' =
         IF ok /\ conversationID[p] \in ConvIds
           THEN [conversations EXCEPT ![conversationID[p]].updated_at = DbNow]
           ELSE conversations
  /\ Emit(p, formatStreamEvent("end", "", conversationID[p]))
  /\ Finish(p, 200)
  /\ UNCHANGED <<limVars, messages, reqMessage, conversationID, claudeReq,
                 called, body, got, fullResponse, out>>

\* ---------------------------------------------------------- the GET paths
\* A handler that looks the conversation up by its id alone.
GetHistory_AnyOwner(p, convs) ==
  /\ pc[p] = "handler"
  /\ path[p] = "history"
  /\ \E c \in convs, ok1 \in BOOLEAN, ok2 \in BOOLEAN :
       IF userID[p] = "" THEN Finish(p, 401) /\ out' = out
       ELSE IF c = NoConv THEN Finish(p, 400) /\ out' = out
       ELSE IF ~(ok1 /\ c \in ConvIds)
         THEN Finish(p, 404) /\ out' = out
       ELSE IF ~ok2 THEN Finish(p, 500) /\ out' = out
       ELSE /\ Finish(p, 200)
            /\ out' = [out EXCEPT ![p] = getConversationMessages(c)]
  /\ UNCHANGED <<limVars, dbVars, reqMessage, conversationID, claudeReq,
                 called, events, down, body, got, fullResponse>>

\* GetHistory: the conversationId parameter is one of convs; the ownership
\* query and the message query may each fail.
GetHistory(p, convs) ==
  /\ pc[p] = "handler"
  /\ path[p] = "history"
  /\ \E c \in convs, ok1 \in BOOLEAN, ok2 \in BOOLEAN :
       IF userID[p] = "" THEN Finish(p, 401) /\ out' = out
       ELSE IF c = NoConv THEN Finish(p, 400) /\ out' = out
       ELSE IF ~(ok1 /\ c \in ConvIds /\ conversations[c].user_id = userID[p])
         THEN Finish(p, 404) /\ out' = out
       ELSE IF ~ok2 THEN Finish(p, 500) /\ out' = out
       ELSE /\ Finish(p, 200)
            /\ out' = [out EXCEPT ![p] = getConversationMessages(c)]
  /\ UNCHANGED <<limVars, dbVars, reqMessage, conversationID, claudeReq,
                 called, events, down, body, got, fullResponse>>

\* The ids of the user's conversations, latest updated_at first.
RECURSIVE Latest(_)
Latest(ids) ==
  IF ids = {} THEN <<>>
  ELSE LET c == CHOOSE x \in ids :
                  \A y \in ids :
                    \/ conversations[x].updated_at > conversations[y].updated_at
                    \/ conversations[x].updated_at = conversations[y].updated_at
                       /\ x >= y
       IN <<c>> \o Latest(ids \ {c})

\* GetConversations: SELECT ... WHERE user_id = $1 ORDER BY updated_at DESC
\* LIMIT 50, which may fail.
GetConversations(p) ==
  /\ pc[p] = "handler"
  /\ path[p] = "conversations"
  /\ \E ok \in BOOLEAN :
       IF userID[p] = "" THEN Finish(p, 401) /\ out' = out
       ELSE IF ~ok THEN Finish(p, 500) /\ out' = out
       ELSE /\ Finish(p, 200)
            /\ out' = [out EXCEPT ![p] =
                 LET rows == Latest({c \in ConvIds :
                                       conversations[c].user_id = userID[p]})
                 IN [i \in 1..Min(Len(rows), 50) |->
                       [id |-> rows[i], user_id |-> userID[p]]]]
  /\ UNCHANGED <<limVars, dbVars, reqMessage, conversationID, claudeReq,
                 called, events, down, body, got, fullResponse>>

\* ------------------------------------------------------ specifications
\* The middleware chain and the handlers that answer in one step.
Front(p, paths, keys, users, msgs, convs) ==
  \/ Arrive(p, paths, keys)
  \/ AuthMiddleware(p, users)
  \/ RLEnter(p)
  \/ RLExit(p)
  \/ AuthHandler(p)
  \/ DashboardHandler(p)
  \/ SendMessage(p, msgs, convs)

\* Two concurrent requests from one client key; chat requests carry no message.
Init == InitOf({"k1"})

Next ==
  \/ Tick
  \/ \E l \in Routes : Sweep(l)
  \/ \E p \in Procs :
       Front(p, {"login", "metrics", "send"}, {"k1"}, {"A"}, {""}, {NoConv})

Spec == Init /\ [][Next]_vars

\* One request at a time, from two client keys; the history is kept for k1.
InitClients == InitOf({"k1"})

NextClients ==
  \/ Tick
  \/ \E l \in Routes : Sweep(l)
  \/ Front("p1", {"login", "metrics", "send"}, Keys, {"A"}, {""}, {NoConv})

SpecClients == InitClients /\ [][NextClients]_vars

\* One request at a time on the chat routes.  The clock stands still, so the
\* client is admitted LimitChat times; chat messages are sent while the messages
\* table holds fewer than MaxMsgs rows, and conversations are created while
\* there are fewer than MaxConvs.
InitRelay == InitOf({"k1"})

ChatPaths ==
  (IF Len(messages) < MaxMsgs THEN {"send"} ELSE {}) \cup
  {"history", "conversations"}

ConvInputs ==
  (IF Len(conversations) < MaxConvs THEN {NoConv} ELSE {}) \cup
  ConvIds \cup {UnknownConv}

\* The upstream answers the first message stored in the first conversation
\* with up to MaxFrames frames and every later one with at most one frame.
UpstreamBodies ==
  Bodies(IF Len(messages) <= 1 /\ Len(conversations) <= 1
           THEN MaxFrames ELSE 1)

NextRelay ==
  \/ Arrive("p1", ChatPaths, {"k1"})
  \/ AuthMiddleware("p1", Users)
  \/ RLEnter("p1")
  \/ RLExit("p1")
  \/ SendMessage("p1", {"", "m"}, ConvInputs)
  \/ GetHistory("p1", ConvInputs)
  \/ CreateConversation("p1")
  \/ SaveUserMessage("p1")
  \/ LoadHistory("p1")
  \/ CallUpstream("p1", UpstreamBodies)
  \/ ReadChunk("p1")
  \/ StreamError("p1")
  \/ SaveAssistantMessage("p1")
  \/ EndStream("p1")
  \/ GetConversations("p1")

SpecRelay == InitRelay /\ [][NextRelay]_vars

\* One chat message at a time from a client that may close the connection
\* while the answer is streamed.
InitHangup == InitOf({"k1"})

SendPaths == IF Len(messages) < MaxMsgs THEN {"send"} ELSE {}

NextHangup ==
  \/ Arrive("p1", SendPaths, {"k1"})
  \/ AuthMiddleware("p1", {"A"})
  \/ RLEnter("p1")
  \/ RLExit("p1")
  \/ SendMessage("p1", {"", "m"}, {NoConv})
  \/ CreateConversation("p1")
  \/ SaveUserMessage("p1")
  \/ LoadHistory("p1")
  \/ CallUpstream("p1", UpstreamBodies)
  \/ ReadChunk("p1")
  \/ ClientCloses("p1")
  \/ StreamError("p1")
  \/ SaveAssistantMessage("p1")
  \/ EndStream("p1")

SpecHangup == InitHangup /\ [][NextHangup]_vars

\* The steps of a relay call after its start event (lines 145-174 and
\* 177-254).  The goroutine of the request is scheduled, client.Do returns
\* within the Timeout of the http.Client (line 192), every reader.Read returns
\* bytes, io.EOF or an error, and every db.Exec returns.
Streams(p) ==
  \/ CallUpstream(p, UpstreamBodies)
  \/ ReadChunk(p)
  \/ StreamError(p)
  \/ SaveAssistantMessage(p)
  \/ EndStream(p)

InitLive == InitOf({"k1"})

NextLive ==
  \/ Arrive("p1", SendPaths, {"k1"})
  \/ AuthMiddleware("p1", {"A"})
  \/ RLEnter("p1")
  \/ RLExit("p1")
  \/ SendMessage("p1", {"", "m"}, {NoConv})
  \/ CreateConversation("p1")
  \/ SaveUserMessage("p1")
  \/ LoadHistory("p1")
  \/ CallUpstream("p1", UpstreamBodies)
  \/ ReadChunk("p1")
  \/ ClientCloses("p1")
  \/ StreamError("p1")
  \/ SaveAssistantMessage("p1")
  \/ EndStream("p1")

SpecLive == InitLive /\ [][NextLive]_vars /\ WF_vars(Streams("p1"))

\* -------------------------------------------------------- the properties
\* The record the limiter of route class l consults for key k: every limiter
\* reads the one package-level map.
VisitorOf(l, k) == visitors[k]

Branches == {"new", "reset", "deny", "incr"}
\* Process p leaves the limiter in this step.
Decides(p) == pc[p] \in Branches /\ pc'[p] \notin Branches
Limiter(p) == Class[path[p]]

\* C1: a client that issues at most L requests to a limiter within one window
\* has all of them admitted, and the (L+1)-th within the window is denied.
C1_AdmitUpToLimit ==
  [][\A p \in Procs :
       (Decides(p) /\ Limiter(p) = hist.lim /\ ip[p] = hist.key) =>
         /\ hist'.n \in 1..requestsPerWindow[hist.lim] => pc[p] # "deny"
         /\ hist'.n = requestsPerWindow[hist.lim] + 1 => pc[p] = "deny"]_vars

\* C2: a request handled by one limiter never changes the record another
\* limiter consults for the same client key.
C2_Independent ==
  [][\A p \in Procs : Decides(p) =>
       \A l \in Routes \ {Limiter(p)} :
         VisitorOf(l, ip[p])' = VisitorOf(l, ip[p])]_vars

\* C3: the count of a record whose window is still active is at most the
\* limit of the limiter that consults it.
C3_CountWithinLimit ==
  \A l \in Routes, k \in Keys :
    LET v == VisitorOf(l, k) IN
    (v # NoVisitor /\ now - v.lastSeen <= window[l]) =>
      v.count <= requestsPerWindow[l]

\* The observed key's current window is open and, while it has been, the key
\* has sent requests to the observed limiter only.
OneLimiterWindow ==
  /\ hist.first # NoTime
  /\ now - hist.first <= window[hist.lim]
  /\ hist.other = NoTime \/ hist.first - hist.other > window[hist.lim]

\* C4: for concurrent requests from one key to one limiter within one window
\* (and sweeps among them), at most limit requests are admitted and the
\* record's count is the number of admitted requests.
C4_AtomicUpdate ==
  OneLimiterWindow =>
    /\ visitors[hist.key] # NoVisitor
    /\ visitors[hist.key].count = hist.adm
    /\ hist.adm <= requestsPerWindow[hist.lim]

\* Two requests to the observed limiter are in flight, one inside the critical
\* section and one waiting for mu, in a window that already reached the limit.
C4_Witness ==
  /\ OneLimiterWindow
  /\ hist.adm = requestsPerWindow[hist.lim]
  /\ hist.n > hist.adm
  /\ \E p, q \in Procs :
       /\ pc[p] \in Branches /\ pc[q] = "rl"
       /\ Limiter(p) = hist.lim /\ Limiter(q) = hist.lim
       /\ ip[p] = hist.key /\ ip[q] = hist.key

\* C5: a request that arrives more than one window after the client's
\* last-seen time is admitted and leaves the record at count 1, lastSeen now.
C5_ResetAfterWindow ==
  [][\A p \in Procs :
       LET v == visitors[ip[p]] IN
       (Decides(p) /\ v # NoVisitor /\ now - v.lastSeen > window[Limiter(p)]) =>
         /\ pc'[p] = "handler"
         /\ visitors'[ip[p]] = [lastSeen |-> now, count |-> 1]]_vars

\* A client whose count had reached the limit is found after its window.
C5_Witness ==
  \E p \in Procs :
    /\ pc[p] = "reset"
    /\ visitors[ip[p]].count >= requestsPerWindow[Limiter(p)]

\* C7: a sweep pass removes every record older than the window and no
\* record younger than the window of the limiter it belongs to.
C7_SweepRemovesStale ==
  [][(\E s \in Routes : Sweep(s)) =>
       \A l \in Routes, k \in Keys :
         LET v == VisitorOf(l, k) IN
         /\ (v # NoVisitor /\ now - v.lastSeen > window[l]) =>
              VisitorOf(l, k)' = NoVisitor
         /\ (v # NoVisitor /\ now - v.lastSeen < window[l]) =>
              VisitorOf(l, k)' = v]_vars

\* The observed key's record was swept while another key's young record stays.
C7_Witness ==
  /\ hist.last # NoTime
  /\ visitors[hist.key] = NoVisitor
  /\ \E k \in Keys \ {hist.key} :
       visitors[k] # NoVisitor /\ now - visitors[k].lastSeen < Window

\* C6: a request the limiter denies changes no visitor record, reaches no
\* handler, writes no row, makes no upstream call, and is answered with 429.
C6_DenyMutatesNothing ==
  [][\A p \in Procs :
       /\ (pc[p] = "deny" \/ pc'[p] = "deny") =>
            /\ visitors' = visitors
            /\ conversations' = conversations /\ messages' = messages
            /\ called'[p] = FALSE /\ events'[p] = <<>>
       /\ (pc[p] = "deny" /\ pc'[p] # "deny") =>
            pc'[p] = "done" /\ resp'[p] = 429]_vars

\* A request is denied while conversations and messages are stored.
C6_Witness ==
  \E p \in Procs : resp[p] = 429 /\ pc[p] = "done" /\ messages # <<>>

Last(seq) == seq[Len(seq)]
Terminal == {"end", "error"}

\* C8: the events of a call that opened the stream are start, then content
\* events, then exactly one of end and error, which is the last event.
C8_EventOrder ==
  \A p \in Procs :
    LET es == events[p] IN
    es # <<>> =>
      /\ es[1].type = "start"
      /\ \A i \in 2..Len(es) :
           IF i < Len(es) THEN es[i].type = "content"
           ELSE es[i].type \in {"content"} \cup Terminal
      /\ pc[p] = "done" => Len(es) >= 2 /\ Last(es).type \in Terminal
      /\ pc[p] # "done" => Last(es).type \notin Terminal

\* A call has ended with start, content events and end.
C8_Witness ==
  \E p \in Procs :
    /\ pc[p] = "done" /\ Len(events[p]) >= 4
    /\ Last(events[p]).type = "end"

\* The texts of the content events, in emission order.
RECURSIVE ContentTexts(_)
ContentTexts(es) ==
  IF es = <<>> THEN <<>>
  ELSE IF Head(es).type = "content"
    THEN <<Head(es).text>> \o ContentTexts(Tail(es))
  ELSE ContentTexts(Tail(es))

UserRow(p) ==
  [conversation_id |-> conversationID[p], role |-> "user",
   content |-> <<reqMessage[p]>>]
AssistantRow(p) ==
  [conversation_id |-> conversationID[p], role |-> "assistant",
   content |-> ContentTexts(events[p])]

\* The call of p ended with an error event that reports an upstream error.
UpstreamFailed(p) ==
  /\ events[p] # <<>>
  /\ Last(events[p]).type = "error"
  /\ Last(events[p]).text \in UpstreamErrors

\* The last rows of messages are the user message of p's call and, if both
\* is asked, the assistant message made of its content events.
StoredUser(p) ==
  Len(messages) >= 1 /\ Last(messages) = UserRow(p)
StoredBoth(p) ==
  /\ Len(messages) >= 2
  /\ messages[Len(messages) - 1] = UserRow(p)
  /\ Last(messages) = AssistantRow(p)

\* C9 as stated, for the calls that opened the stream: a call with a
\* non-empty message M has stored one user message M and, absent upstream
\* error, one assistant message, the texts of its content events in order;
\* with no content event the assistant message is empty and end is emitted.
C9_RoundTrip ==
  \A p \in Procs :
    (pc[p] = "done" /\ reqMessage[p] # "" /\ events[p] # <<>>) =>
      IF UpstreamFailed(p) THEN StoredUser(p)
      ELSE StoredBoth(p) /\ Last(events[p]).type = "end"

\* Every row a step adds to messages is the user message of the call that
\* stands before its first INSERT, or the assistant message of the call that
\* stands before its second.
OneRowPerInsert ==
  messages' # messages =>
    \E p \in Procs :
      \/ pc[p] = "saveUser" /\ pc'[p] = "history"
         /\ messages' = Append(messages, UserRow(p))
      \/ pc[p] = "save" /\ pc'[p] = "end"
         /\ messages' = Append(messages, AssistantRow(p))

\* C9, with the storage named: a call with a non-empty message M that opened
\* the stream has stored one user message M; if it ends with end it has
\* stored one assistant message, the texts of its content events in order
\* (empty when there is none); otherwise it ends with an error event for an
\* upstream error or for the refused INSERT, and has stored no assistant
\* message.
C9_RoundTripStored ==
  /\ [](\A p \in Procs :
          (pc[p] = "done" /\ reqMessage[p] # "" /\ events[p] # <<>>) =>
            IF Last(events[p]).type = "end" THEN StoredBoth(p)
            ELSE /\ StoredUser(p)
                 /\ Last(events[p]).type = "error"
                 /\ Last(events[p]).text \in UpstreamErrors \cup {"save"})
  /\ [][OneRowPerInsert]_vars

\* A call has stored an assistant message of two texts, and another one has
\* stored an empty one.
C9_Witness ==
  /\ \E p \in Procs :
       /\ pc[p] = "done" /\ events[p] # <<>>
       /\ Last(events[p]).type = "end"
       /\ ContentTexts(events[p]) = <<>>
  /\ \E i \in 1..Len(messages) :
       messages[i].role = "assistant" /\ Len(messages[i].content) = 2

\* C10: when the upstream call fails, the relay emits one error event and no
\* end, stores no assistant message and leaves the user message; after a
\* status other than 200 there is no content event.
C10_UpstreamFailure ==
  [][\A p \in Procs :
       (pc[p] \in UpstreamErrors /\ pc'[p] # pc[p]) =>
         /\ pc'[p] = "done"
         /\ events'[p] =
              Append(events[p],
                     formatStreamEvent("error", pc[p], conversationID[p]))
         /\ \A i \in 1..Len(events[p]) : events[p][i].type \notin Terminal
         /\ messages' = messages
         /\ StoredUser(p)
         /\ pc[p] = "status" => ContentTexts(events[p]) = <<>>]_vars

\* A read error has ended a call after content events were forwarded.
C10_Witness ==
  \E p \in Procs :
    /\ pc[p] = "done" /\ UpstreamFailed(p)
    /\ Last(events[p]).text = "read"
    /\ ContentTexts(events[p]) # <<>>

\* The lines of a stretch of the upstream stream, and the line of a frame
\* whose payload is the sentinel.
DoneLine == <<"D", "[DONE]">>
DoneRead(bytes) == \E i \in 1..Len(Split(bytes)) : Split(bytes)[i] = DoneLine

\* The content-delta frames of a stretch of the stream that stand before its
\* first sentinel frame.
DeltasBeforeDone(bytes) ==
  LET lines == Split(bytes)
      stop == IF \E i \in 1..Len(lines) : lines[i] = DoneLine
                THEN CHOOSE i \in 1..Len(lines) :
                       /\ lines[i] = DoneLine
                       /\ \A j \in 1..(i - 1) : lines[j] # DoneLine
                ELSE Len(lines) + 1
  IN {i \in 1..(stop - 1) : HasPrefix(lines[i]) /\ IsDelta(Tail(lines[i]))}

\* The bytes the step takes from resp.Body.
Chunk(p) == SubSeq(body[p], 1, Len(body[p]) - Len(body'[p]))

\* C11: once a frame whose payload is "[DONE]" has been read, no later read
\* forwards or accumulates anything, and of the frames of one read only the
\* content deltas before the sentinel are forwarded.
C11_DoneEndsConsumption ==
  [][\A p \in Procs :
       pc[p] = "recv" =>
         /\ DoneRead(got[p]) =>
              fullResponse'[p] = fullResponse[p] /\ events'[p] = events[p]
         /\ Len(fullResponse'[p]) - Len(fullResponse[p])
              <= Cardinality(DeltasBeforeDone(Chunk(p)))]_vars

\* C12: once a write to the client has failed, the call reads and accumulates
\* no more of the upstream stream and stores no assistant message.
C12_WriteFailureAborts ==
  [][\A p \in Procs :
       (down[p] = "failed" /\ pc[p] \notin {"idle", "done"}) =>
         /\ body'[p] = body[p]
         /\ fullResponse'[p] = fullResponse[p]
         /\ messages' = messages]_vars

\* C13: a chat request with an empty message is answered with 400; it writes
\* no conversation and no message, emits no event and calls no upstream.
C13_EmptyMessageRejected ==
  [][\A p \in Procs :
       SendMessage(p, {""}, ConvInputs) =>
         /\ pc'[p] = "done" /\ resp'[p] = 400
         /\ conversations' = conversations /\ messages' = messages
         /\ events'[p] = <<>> /\ called'[p] = FALSE]_vars

\* SendMessage has answered a request with 400 while rows are stored.
C13_Witness ==
  \E p \in Procs :
    /\ pc[p] = "done" /\ resp[p] = 400
    /\ messages # <<>> /\ conversations # <<>>

\* C14: the user message is stored, and the start event with the id of its
\* conversation is emitted, before the upstream call; a call whose user
\* message is not stored emits no event and calls no upstream.
C14_PersistStartThenUpstream ==
  /\ [](\A p \in Procs :
          /\ called[p] => events[p] # <<>>
          /\ events[p] # <<>> =>
               /\ events[p][1] =
                    formatStreamEvent("start", "", conversationID[p])
               /\ \E i \in 1..Len(messages) : messages[i] = UserRow(p))
  /\ [][\A p \in Procs :
          (pc[p] = "saveUser" /\ pc'[p] # "saveUser" /\ messages' = messages) =>
            /\ pc'[p] = "done" /\ resp'[p] = 500
            /\ events'[p] = <<>> /\ called'[p] = FALSE]_vars

\* The upstream has been called for a message in a conversation the call
\* created after another one.
C14_Witness ==
  \E p \in Procs :
    /\ called[p] /\ pc[p] = "recv"
    /\ conversationID[p] = 2 /\ Len(conversations) = 2

\* The owner of the conversation a row of a GET response belongs to: a
\* message row names its conversation, a conversation row is one.
OwnerOf(row) ==
  IF "conversation_id" \in DOMAIN row
    THEN conversations[row.conversation_id].user_id
    ELSE conversations[row.id].user_id

\* The conversation ids that are not the subject's: another subject's, and
\* one that names no conversation.
NotOwn(p) ==
  {c \in ConvIds : conversations[c].user_id # userID[p]} \cup {UnknownConv}

\* C15: the rows GetHistory and GetConversations return to a subject belong
\* to conversations of that subject, and GetHistory answers a conversation id
\* of another subject as it answers an id that names no conversation, with
\* 404 and no row.
C15_OwnershipIsolation ==
  /\ [](\A p \in Procs :
          pc[p] = "done" =>
            \A i \in 1..Len(out[p]) : OwnerOf(out[p][i]) = userID[p])
  /\ [][\A p \in Procs :
          GetHistory(p, NotOwn(p)) => resp'[p] = 404 /\ out'[p] = <<>>]_vars

\* GetHistory has answered 404 to a subject while another subject's
\* conversation holds messages.
C15_Witness ==
  \E p \in Procs :
    /\ pc[p] = "done" /\ resp[p] = 404
    /\ \E i \in 1..Len(messages) :
         conversations[messages[i].conversation_id].user_id # userID[p]

\* The step writes the end event of p's call.
EmitsEnd(p) ==
  /\ Len(events'[p]) > Len(events[p])
  /\ Last(events'[p]).type = "end"

\* C16: when end is emitted the assistant message is stored and updated_at of
\* the conversation has been refreshed; a storage write that fails is
\* answered with an error and never followed by end.
C16_EndAfterPersistAndRefresh ==
  [][\A p \in Procs :
       EmitsEnd(p) =>
         /\ \E i \in 1..Len(messages') :
              /\ messages'[i].role = "assistant"
              /\ messages'[i].conversation_id = conversationID[p]
              /\ messages'[i].content = fullResponse[p]
         /\ conversations'[conversationID[p]].updated_at = DbNow]_vars

Admitted == {"new", "reset", "incr"}

\* C17: a chat request passes AuthMiddleware, then the limiter, then the
\* handler: a request the guard rejects changes no visitor record and reaches
\* no handler, and the handler runs only with a user id attached and after
\* the limiter admitted the request.
C17_StageOrder ==
  [][\A p \in Procs :
       /\ (pc[p] \in {"idle", "done"} /\ pc'[p] \notin {"idle", "done"}
           /\ Class[path'[p]] \in Protected) => pc'[p] = "auth"
       /\ (pc[p] = "auth" /\ pc'[p] # "auth") =>
            /\ visitors' = visitors
            /\ \/ pc'[p] = "done" /\ resp'[p] = 401
               \/ pc'[p] = "rl" /\ userID'[p] \in Users
       /\ (pc[p] # "rl" /\ pc'[p] = "rl" /\ Class[path'[p]] \in Protected) =>
            pc[p] = "auth"
       /\ (pc[p] # "handler" /\ pc'[p] = "handler") =>
            /\ pc[p] \in Admitted
            /\ Class[path[p]] \in Protected => userID[p] \in Users
       /\ (pc[p] # pc'[p] /\ pc'[p] \in {"create", "saveUser"}) =>
            pc[p] \in {"handler", "create"}]_vars

\* AuthMiddleware has rejected a request of a client the limiter knows.
C17_Witness ==
  \E p \in Procs :
    /\ pc[p] = "done" /\ resp[p] = 401
    /\ \E k \in Keys : visitors[k] # NoVisitor

\* C18: the texts forwarded do not depend on how the stream is divided into
\* reads.  Stated for the streams without a sentinel frame: when the last
\* read of a call returns, the accumulated text and the content events are
\* those of the whole stream arriving in one read.
C18_ReadBoundaries ==
  [][\A p \in Procs :
       (pc[p] = "recv" /\ pc'[p] = "save"
        /\ ~DoneRead(got[p] \o Chunk(p))) =>
         /\ fullResponse'[p] = Forward(Split(got[p] \o Chunk(p)))
         /\ ContentTexts(events'[p]) = Forward(Split(got[p] \o Chunk(p)))]_vars

\* The texts of the content-delta lines of DeltasBeforeDone, in their order.
DeltaTexts(bytes) ==
  LET at == DeltasBeforeDone(bytes)
      lines == Split(bytes)
  IN [k \in 1..Cardinality(at) |->
        lines[CHOOSE i \in at : Cardinality({j \in at : j <= i}) = k][3]]

\* A line the loop skips: no tag, or a payload that is no JSON.
Malformed(line) ==
  /\ line # <<>>
  /\ \/ ~HasPrefix(line)
     \/ Tail(line) # <<"[DONE]">> /\ ~ValidJSON(Tail(line))

\* C19: a line without the tag or with a payload that is no JSON is skipped:
\* a read forwards and accumulates the texts of all its content-delta lines
\* (up to a sentinel line), whatever other lines stand between them, emits
\* nothing else and does not end the call.
C19_MalformedSkipped ==
  [][\A p \in Procs :
       (pc[p] = "recv" /\ body'[p] # body[p]) =>
         LET texts == DeltaTexts(Chunk(p)) IN
         /\ fullResponse'[p] = fullResponse[p] \o texts
         /\ ContentTexts(events'[p]) = ContentTexts(events[p]) \o texts
         /\ Len(events'[p]) = Len(events[p]) + Len(texts)
         /\ pc'[p] \in {"recv", "save", "read"}]_vars

\* A text has been forwarded from a stream that began with a skipped line.
C19_Witness ==
  \E p \in Procs :
    /\ pc[p] = "recv"
    /\ got[p] # <<>> /\ Malformed(Split(got[p])[1])
    /\ fullResponse[p] # <<>>

\* C20: a relay call adds messages to, sends upstream the history of, and
\* refreshes updated_at of, a conversation of the calling subject only.
C20_RelayOwnConversation ==
  [][\A p \in Procs :
       (/\ pc[p] \in {"saveUser", "history", "save", "end"}
        /\ \/ messages' # messages
           \/ claudeReq'[p] # claudeReq[p]
           \/ conversations' # conversations) =>
         /\ conversationID[p] \in ConvIds
         /\ conversations[conversationID[p]].user_id = userID[p]]_vars

\* The number of requests of the observed key that the observed limiter
\* admitted in the window-length interval that ends at time t, both ends
\* included, for a key that has sent requests to the observed limiter only.
RECURSIVE AdmittedSince(_, _)
AdmittedSince(t, u) ==
  IF u > t THEN 0 ELSE hist.at[u] + AdmittedSince(t, u + 1)

AdmittedInWindow(t) ==
  LET w == window[hist.lim] IN AdmittedSince(t, IF t > w THEN t - w ELSE 0)

\* C21: a request is never denied when fewer than limit requests from the same
\* key were admitted by that limiter during the window-length interval that
\* ends at the request.  Stated for a key that has sent requests to the
\* observed limiter only, so that the count of the record is the work of that
\* limiter alone.
C21_DeniedOnlyAtLimit ==
  [][\A p \in Procs :
       (/\ Decides(p)
        /\ Limiter(p) = hist.lim
        /\ ip[p] = hist.key
        /\ hist.other = NoTime
        /\ pc[p] = "deny")
       => AdmittedInWindow(now) >= requestsPerWindow[hist.lim]]_vars


\* A step of a sweep pass that deletes at least one record: the only step that
\* changes visitors while no request holds mu.
Sweeps == mu = NoProc /\ mu' = NoProc /\ visitors' # visitors

\* The limiter l treats the records v and u alike at time t: it takes the same
\* decision on a request that finds either of them and leaves the same record.
SameOutcome(l, v, u, t) ==
  LET b == Branch(v, t, requestsPerWindow[l], window[l])
      c == Branch(u, t, requestsPerWindow[l], window[l])
  IN /\ (b = "deny") <=> (c = "deny")
     /\ Written(b, v, t) = Written(c, u, t)

\* C22: sweep passes are invisible to admission.  The record under a key
\* before a sweep pass and the record (or the absence of one) after it get the
\* same decision from every limiter at every time from the pass on, and the
\* request leaves the same record in both cases, so that every later request
\* is decided as without the pass.
C22_SweepInvisible ==
  [][Sweeps =>
       \A k \in Keys : \A l \in Routes : \A t \in now..MaxTime :
         SameOutcome(l, visitors[k], visitors'[k], t)]_vars

\* A request of the observed key finds no record although the observed limiter
\* has written one before: a sweep pass took it, and the request is admitted.
C22_Witness ==
  \E p \in Procs :
    /\ pc[p] = "new"
    /\ ip[p] = hist.key
    /\ Limiter(p) = hist.lim
    /\ hist.adm >= 1


\* C23: the message history that a relay call sends upstream alternates the
\* roles user, assistant, user, ..., beginning and ending with a user message,
\* whatever relay calls came before on the conversation.  The specification has
\* one process, so that at most one relay call is in flight.
C23_HistoryAlternates ==
  \A p \in Procs :
    claudeReq[p] # <<>> =>
      /\ Len(claudeReq[p]) % 2 = 1
      /\ \A i \in 1..Len(claudeReq[p]) :
           claudeReq[p][i].role = IF i % 2 = 1 THEN "user" ELSE "assistant"


\* The call of process p has returned after a terminal event.
Returned(p) ==
  /\ pc[p] = "done"
  /\ events[p] # <<>>
  /\ Last(events[p]).type \in Terminal

\* C24: every relay call that has emitted start eventually emits a terminal
\* event (end or error) and returns, when the upstream call fails or its body
\* reaches end-of-stream or a read error, and every storage call returns.
\* p1 is the process that serves the requests of SpecLive.
C24_Terminates ==
  (events["p1"] # <<>>) ~> Returned("p1")

\* A call has returned with the end event after it forwarded two content
\* events.
C24_Witness ==
  /\ Returned("p1")
  /\ Last(events["p1"]).type = "end"
  /\ Len(fullResponse["p1"]) >= 2


====
